---- MODULE Spec2Model ----
(***************************************************************************)
(* A model of lite_tavily.py: the Streamlit script that answers a Tata     *)
(* Motors dealership query with one Tavily search followed by one Groq     *)
(* chat completion whose text is fence-stripped, parsed with json.loads    *)
(* and returned as a "structured" or a "text_fallback" dictionary.         *)
(*                                                                         *)
(* Strings are sequences of atoms.  An atom is one character (a backtick,  *)
(* a space, a brace, a letter) or a run of letters that no regular         *)
(* expression or                                                           *)
(* scanner of the program splits ("json", "null", "dealers", ...), so      *)
(* every sequence of atoms is a real Python string and the operators       *)
(* below compute on it what the Python code computes on that string.       *)
(*                                                                         *)
(* Python values are tagged records [t, v]:                                *)
(*   None [t |-> "null"],  bool,  int/float [t |-> "num"],                 *)
(*   str [t |-> "str", v |-> atoms],  list [t |-> "arr", v |-> values],    *)
(*   dict [t |-> "obj", v |-> sequence of <<key atoms, value>>, in         *)
(*   insertion order, keys unique].                                        *)
(***************************************************************************)
EXTENDS Integers, Sequences, FiniteSets, TLC

\* ------------------------------------------------------------------------
\* Python values
\* ------------------------------------------------------------------------
NullV == [t |-> "null", v |-> <<>>]
BoolV(b) == [t |-> "bool", v |-> <<b>>]
NumV(digits) == [t |-> "num", v |-> digits]
StrV(s) == [t |-> "str", v |-> s]
ArrV(items) == [t |-> "arr", v |-> items]
ObjV(pairs) == [t |-> "obj", v |-> pairs]

IsDict(x) == x.t = "obj"

RECURSIVE KeyIndex(_, _, _)
\* The position of key k in the pairs of a dict, 0 when it has none.
KeyIndex(pairs, k, i) ==
    IF i > Len(pairs) THEN 0
    ELSE IF pairs[i][1] = k THEN i
    ELSE KeyIndex(pairs, k, i + 1)

\* d.get(k), d.get(k, default)
DictGetDefault(d, k, default) ==
    LET i == KeyIndex(d.v, k, 1)
    IN  IF i = 0 THEN default ELSE d.v[i][2]

DictGet(d, k) == DictGetDefault(d, k, NullV)

\* d[k] = x : an existing key keeps its place, a new key goes last
DictSet(d, k, x) ==
    LET i == KeyIndex(d.v, k, 1)
    IN  IF i = 0 THEN ObjV(Append(d.v, <<k, x>>))
        ELSE ObjV([d.v EXCEPT ![i] = <<k, x>>])

\* bool(x)
Truthy(x) ==
    CASE x.t = "null" -> FALSE
      [] x.t = "bool" -> x.v[1]
      [] x.t = "num"  -> \E i \in 1..Len(x.v) : x.v[i] \in {"1", "NaN", "Infinity"}
      [] OTHER        -> Len(x.v) > 0

\* ------------------------------------------------------------------------
\* Strings
\* ------------------------------------------------------------------------
\* the backtick character (the atom is named: a TLA+ string cannot hold it)
BT == "BACKTICK"
QT == "\""
Whitespace == {" ", "\n", "\t"}
JsonWord == {"json", "JSON", "Json"}

Min(a, b) == IF a < b THEN a ELSE b

Drop(s, n) == SubSeq(s, n + 1, Len(s))
Take(s, n) == SubSeq(s, 1, Min(n, Len(s)))

RECURSIVE LStrip(_)
LStrip(s) == IF Len(s) > 0 /\ s[1] \in Whitespace THEN LStrip(Tail(s)) ELSE s

RECURSIVE RStrip(_)
RStrip(s) ==
    IF Len(s) > 0 /\ s[Len(s)] \in Whitespace
    THEN RStrip(SubSeq(s, 1, Len(s) - 1)) ELSE s

\* str.strip()
Strip(s) == RStrip(LStrip(s))

StartsWithFence(s) == Len(s) >= 3 /\ s[1] = BT /\ s[2] = BT /\ s[3] = BT

EndsWithFence(s) ==
    Len(s) >= 3 /\ s[Len(s)] = BT /\ s[Len(s) - 1] = BT /\ s[Len(s) - 2] = BT

\* variant: the json-tagged pattern left out
SubJsonFenceMissing(s) == s

\* re.sub(r"^```json\s*", "", t, flags=re.IGNORECASE)
SubJsonFence(s) ==
    IF StartsWithFence(s) /\ Len(s) >= 4 /\ s[4] \in JsonWord
    THEN LStrip(Drop(s, 4)) ELSE s

\* re.sub(r"^```\s*", "", t, flags=re.IGNORECASE)
SubOpenFence(s) == IF StartsWithFence(s) THEN LStrip(Drop(s, 3)) ELSE s

\* re.sub(r"\s*```$", "", t): the leftmost match is the whole run of
\* whitespace before the last three backticks
SubCloseFence(s) ==
    IF EndsWithFence(s) THEN RStrip(SubSeq(s, 1, Len(s) - 3)) ELSE s

_strip_code_fences(t) ==
    LET t0 == Strip(t)
        t1 == Strip(SubJsonFence(t0))
        t2 == Strip(SubOpenFence(t1))
        t3 == Strip(SubCloseFence(t2))
    IN  t3

\* ------------------------------------------------------------------------
\* json.loads
\* ------------------------------------------------------------------------
JsonWhitespace == {" ", "\n", "\t"}
Digit == {"0", "1"}

Fail == [ok |-> FALSE, val |-> NullV, end |-> 0]
Ok(x, e) == [ok |-> TRUE, val |-> x, end |-> e]

RECURSIVE SkipWS(_, _)
SkipWS(s, i) ==
    IF i <= Len(s) /\ s[i] \in JsonWhitespace THEN SkipWS(s, i + 1) ELSE i

RECURSIVE ScanString(_, _, _)
\* s[i-1] was the opening quote; a control character ends the scan in an
\* error (strict mode), the closing quote ends the string
ScanString(s, i, acc) ==
    IF i > Len(s) THEN Fail
    ELSE IF s[i] = QT THEN Ok(StrV(acc), i + 1)
    ELSE IF s[i] \in {"\n", "\t"} THEN Fail
    ELSE ScanString(s, i + 1, Append(acc, s[i]))

RECURSIVE DigitsEnd(_, _)
DigitsEnd(s, i) == IF i <= Len(s) /\ s[i] \in Digit THEN DigitsEnd(s, i + 1) ELSE i

\* NUMBER_RE: an optional minus, then 0 or a digit run that does not start
\* with 0 (the atoms hold no fraction and no exponent)
ScanNumber(s, i) ==
    LET j == IF s[i] = "-" THEN i + 1 ELSE i
    IN  IF j > Len(s) \/ s[j] \notin Digit THEN Fail
        ELSE LET e == IF s[j] = "0" THEN j + 1 ELSE DigitsEnd(s, j)
             IN  Ok(NumV(SubSeq(s, i, e - 1)), e)

RECURSIVE ScanOnce(_, _, _)
RECURSIVE ParseObject(_, _, _, _)
RECURSIVE ParseArray(_, _, _, _)

\* scanner.py_make_scanner._scan_once; lenient = the parse_constant hook that
\* json.loads leaves on by default (NaN, Infinity, -Infinity)
ScanOnce(s, i, lenient) ==
    IF i > Len(s) THEN Fail
    ELSE LET c == s[i]
         IN  CASE c = QT      -> ScanString(s, i + 1, <<>>)
               [] c = "{"     -> ParseObject(s, i + 1, lenient, <<>>)
               [] c = "["     -> ParseArray(s, i + 1, lenient, <<>>)
               [] c = "null"  -> Ok(NullV, i + 1)
               [] c = "true"  -> Ok(BoolV(TRUE), i + 1)
               [] c = "false" -> Ok(BoolV(FALSE), i + 1)
               [] c \in Digit \/ (c = "-" /\ i < Len(s) /\ s[i + 1] \in Digit)
                              -> ScanNumber(s, i)
               [] lenient /\ c \in {"NaN", "Infinity"}
                              -> Ok(NumV(<<c>>), i + 1)
               [] lenient /\ c = "-" /\ i < Len(s) /\ s[i + 1] = "Infinity"
                              -> Ok(NumV(<<"-", "Infinity">>), i + 2)
               [] OTHER       -> Fail

\* decoder.JSONObject, after the opening brace; i is at the next key or at
\* the closing brace of an empty object
ParseObject(s, i, lenient, pairs) ==
    LET i1 == SkipWS(s, i)
    IN  IF i1 > Len(s) THEN Fail
        ELSE IF s[i1] = "}" /\ pairs = <<>> THEN Ok(ObjV(<<>>), i1 + 1)
        ELSE IF s[i1] # QT THEN Fail
        ELSE LET key == ScanString(s, i1 + 1, <<>>)
             IN  IF ~key.ok THEN Fail
                 ELSE LET i2 == SkipWS(s, key.end)
                      IN  IF i2 > Len(s) \/ s[i2] # ":" THEN Fail
                          ELSE LET val == ScanOnce(s, SkipWS(s, i2 + 1), lenient)
                               IN  IF ~val.ok THEN Fail
                                   ELSE LET i3 == SkipWS(s, val.end)
                                            more == Append(pairs, <<key.val.v, val.val>>)
                                        IN  IF i3 > Len(s) THEN Fail
                                            ELSE IF s[i3] = "}" THEN Ok(ObjV(more), i3 + 1)
                                            ELSE IF s[i3] # "," THEN Fail
                                            ELSE ParseObject(s, i3 + 1, lenient, more)

\* decoder.JSONArray, after the opening bracket
ParseArray(s, i, lenient, items) ==
    LET i1 == SkipWS(s, i)
    IN  IF i1 > Len(s) THEN Fail
        ELSE IF s[i1] = "]" /\ items = <<>> THEN Ok(ArrV(<<>>), i1 + 1)
        ELSE LET val == ScanOnce(s, i1, lenient)
             IN  IF ~val.ok THEN Fail
                 ELSE LET i2 == SkipWS(s, val.end)
                          more == Append(items, val.val)
                      IN  IF i2 > Len(s) THEN Fail
                          ELSE IF s[i2] = "]" THEN Ok(ArrV(more), i2 + 1)
                          ELSE IF s[i2] # "," THEN Fail
                          ELSE ParseArray(s, i2 + 1, lenient, more)

RECURSIVE DictOfPairs(_, _)
\* dict(pairs): a repeated key keeps its first place and its last value
DictOfPairs(pairs, d) ==
    IF pairs = <<>> THEN d
    ELSE DictOfPairs(Tail(pairs), DictSet(d, Head(pairs)[1], Head(pairs)[2]))

RECURSIVE Normalize(_)
\* the Python value of a scanned document: every object becomes a dict
Normalize(x) ==
    CASE x.t = "arr" -> ArrV([i \in 1..Len(x.v) |-> Normalize(x.v[i])])
      [] x.t = "obj" -> DictOfPairs([i \in 1..Len(x.v) |->
                                        <<x.v[i][1], Normalize(x.v[i][2])>>],
                                    ObjV(<<>>))
      [] OTHER       -> x

\* decoder.JSONDecoder.decode: one value between optional whitespace, and
\* nothing after it ("Extra data")
Decode(s, lenient) ==
    LET r == ScanOnce(s, SkipWS(s, 1), lenient)
    IN  IF r.ok /\ SkipWS(s, r.end) = Len(s) + 1
        THEN Ok(Normalize(r.val), r.end) ELSE Fail

\* json.loads(s) with its defaults: [ok |-> FALSE] stands for JSONDecodeError
JsonLoads(s) == Decode(s, TRUE)

\* whether s is a JSON text of RFC 8259 (no NaN, no Infinity)
StrictJson(s) == Decode(s, FALSE)

\* ------------------------------------------------------------------------
\* _build_search_query
\* ------------------------------------------------------------------------
\* str.lower() on one character
LowerChar(c) == CASE c = "T" -> "t" [] c = "A" -> "a" [] c = "X" -> "x" [] OTHER -> c

Lower(s) == [i \in 1..Len(s) |-> LowerChar(s[i])]

\* sub in s
Contains(s, sub) ==
    \E i \in 1..(Len(s) - Len(sub) + 1) : SubSeq(s, i, i + Len(sub) - 1) = sub

Brand == <<"t", "a", "t", "a">>

ScopingPhrase ==
    <<"T", "a", "t", "a", " ", "M", "o", "t", "o", "r", "s", " ",
      "d", "e", "a", "l", "e", "r", " ",
      "s", "h", "o", "w", "r", "o", "o", "m", " ">>

\* variant: the test without .lower()
_build_search_query_cased(raw) ==
    IF ~Contains(raw, Brand) THEN ScopingPhrase \o raw ELSE raw

_build_search_query(raw) ==
    IF ~Contains(Lower(raw), Brand) THEN ScopingPhrase \o raw ELSE raw

\* ------------------------------------------------------------------------
\* tavily_search and the compaction of its results
\* ------------------------------------------------------------------------
K(word) == <<word>>

\* res.get("results", []) if isinstance(res, dict) else []
tavily_search(res) ==
    IF IsDict(res) THEN DictGetDefault(res, K("results"), ArrV(<<>>)) ELSE ArrV(<<>>)

ContentBudget == 1200

\* what "for r in x" yields; None, numbers and booleans are not iterable
Iterable(x) == x.t \in {"arr", "str", "obj"}

Elements(x) ==
    CASE x.t = "arr" -> x.v
      [] x.t = "str" -> [i \in 1..Len(x.v) |-> StrV(<<x.v[i]>>)]
      [] x.t = "obj" -> [i \in 1..Len(x.v) |-> StrV(x.v[i][1])]

\* (r.get("content") or "")
ContentOrEmpty(r) ==
    LET c == DictGet(r, K("content")) IN IF Truthy(c) THEN c ELSE StrV(<<>>)

\* whether one element of the comprehension is built without an exception:
\* r.get needs a dict, [:1200] a sequence
Compactable(r) == IsDict(r) /\ ContentOrEmpty(r).t \in {"str", "arr"}

CompactOne(r) ==
    LET c == ContentOrEmpty(r)
    IN  ObjV(<< <<K("title"), DictGet(r, K("title"))>>,
                <<K("url"), DictGet(r, K("url"))>>,
                <<K("content"), [t |-> c.t, v |-> Take(c.v, ContentBudget)]>> >>)

\* compact = [ {...} for r in web_results ]; ok = FALSE is the TypeError or
\* AttributeError the comprehension raises
Compact(web_results) ==
    IF ~Iterable(web_results) THEN [ok |-> FALSE, val |-> ArrV(<<>>)]
    ELSE LET rs == Elements(web_results)
         IN  IF \E i \in 1..Len(rs) : ~Compactable(rs[i])
             THEN [ok |-> FALSE, val |-> ArrV(<<>>)]
             ELSE [ok |-> TRUE, val |-> ArrV([i \in 1..Len(rs) |-> CompactOne(rs[i])])]

\* ------------------------------------------------------------------------
\* groq_structured_answer, from the model's message on
\* ------------------------------------------------------------------------
HasUrl(s) == Truthy(DictGet(s, K("url")))

SourceOf(s) ==
    ObjV(<< <<K("title"), DictGet(s, K("title"))>>, <<K("url"), DictGet(s, K("url"))>> >>)

MapSource(ss) == [i \in 1..Len(ss) |-> SourceOf(ss[i])]

\* variant: the comprehension without its "if s.get(url)"
SourcesUsedUnfiltered(compact) == ArrV(MapSource(compact.v))

\* [{"title": ..., "url": ...} for s in compact if s.get("url")]
SourcesUsed(compact) == ArrV(MapSource(SelectSeq(compact.v, HasUrl)))

\* variant: "return {}" in the except branch
_safe_json_loads_empty_dict(s) ==
    LET r == JsonLoads(s)
    IN  IF r.ok THEN r.val ELSE ObjV(<<>>)

_safe_json_loads(s) ==
    LET r == JsonLoads(s)
    IN  IF r.ok THEN r.val ELSE NullV

\* resp.choices[0].message.content or ""
ContentText(content) == IF Truthy(content) THEN content.v ELSE <<>>

CleanText(content) == _strip_code_fences(ContentText(content))

FallbackAnswer(user_query, text, compact) ==
    ObjV(<< <<K("mode"), StrV(K("text_fallback"))>>,
            <<K("query"), StrV(user_query)>>,
            <<K("response"), StrV(text)>>,
            <<K("sources"), compact>> >>)

\* lines 112-129; raised = TRUE is the TypeError of parsed["mode"] = ... on a
\* value that is not a dict
Answer(user_query, compact, content) ==
    LET text   == CleanText(content)
        parsed == _safe_json_loads(text)
    IN  IF parsed = NullV
        THEN [raised |-> FALSE, val |-> FallbackAnswer(user_query, text, compact)]
        ELSE IF ~IsDict(parsed)
        THEN [raised |-> TRUE, val |-> NullV]
        ELSE [raised |-> FALSE,
              val |-> DictSet(DictSet(parsed, K("mode"), StrV(K("structured"))),
                              K("sources_used"), SourcesUsed(compact))]


\* ------------------------------------------------------------------------
\* Inputs
\* ------------------------------------------------------------------------
MaxResults == 2
MaxBodyLen == 3
MaxContentLen == 5
MaxQueryLen == 4

SeqsUpTo(A, n) == UNION {[1..k -> A] : k \in 0..n}

Fence == <<BT, BT, BT>>
Lit(word) == <<QT, word, QT>>

\* what os.getenv gives: None, "" or a key
KeyValues == {"unset", "empty", "set"}

UserQueries ==
    { <<>>, <<"x">>, <<"T", "A", "t", "a", " ", "x">> }

\* one entry of the provider's "results"
ResultItems ==
    { ObjV(<< <<K("title"), StrV(K("T1"))>>, <<K("url"), StrV(K("u1"))>>,
              <<K("content"), StrV(K("c1"))>> >>),
      ObjV(<< <<K("url"), StrV(K("u2"))>> >>),
      ObjV(<< <<K("title"), StrV(K("T3"))>>, <<K("url"), NullV>>,
              <<K("content"), NullV>> >>),
      ObjV(<< <<K("title"), StrV(K("T4"))>>, <<K("url"), StrV(<<>>)>>,
              <<K("content"), StrV(K("c4"))>> >>),
      StrV(K("x")) }

WithResults(x) == ObjV(<< <<K("query"), StrV(K("q"))>>, <<K("results"), x>> >>)

\* what tavily_client.search may return
ProviderResponses ==
    { NullV, ArrV(<<>>), StrV(K("x")),
      ObjV(<<>>), ObjV(<< <<K("answer"), NullV>> >>),
      WithResults(NullV), WithResults(NumV(<<"1">>)), WithResults(StrV(K("x"))),
      WithResults(StrV(<<>>)), WithResults(ObjV(<<>>)) }
    \cup { WithResults(ArrV(rs)) : rs \in SeqsUpTo(ResultItems, MaxResults) }

\* documents a model may answer with
Corpus ==
    { <<>>,
      <<"Here", " ", "is", ":", " ", "{">> \o Lit("dealers") \o <<":", "[", "]", "}">>,
      <<"{", "}">>,
      <<"{">> \o Lit("dealers") \o <<":", " ", "[", "]", ",", "\n">>
          \o Lit("follow_up_question") \o <<":">> \o Lit("Which") \o <<"}">>,
      <<"{">> \o Lit("dealers") \o <<":", "[", "{">> \o Lit("name") \o <<":">>
          \o Lit("D1") \o <<",">> \o Lit("confidence") \o <<":">> \o Lit("high")
          \o <<"}", "]", "}">>,
      <<"{">> \o Lit("dealers") \o <<":", "[", "{">> \o Lit("confidence") \o <<":">>
          \o Lit("bogus") \o <<"}", "]", "}">>,
      <<"{">> \o Lit("mode") \o <<":">> \o Lit("text_fallback") \o <<",">>
          \o Lit("sources_used") \o <<":", "[", "1", "]", "}">>,
      <<"{">> \o Lit("a") \o <<":", "NaN", "}">>,
      <<"{">> \o Lit("a") \o <<":", "1", ",", "}">>,
      <<"{">> \o Lit("a") \o <<":", "1">>,
      <<"{", "}", " ", "x">>,
      <<"null">>, <<"[", "]">>, <<"[", "1", ",", " ", "0", "]">>, <<"1">>,
      Lit("a"), <<"true">>, <<"false">>, <<"NaN">>, <<"-", "Infinity">> }

\* c inside a fence: tag is empty or the word json, sep what stands between
\* the fence and c
Wrap(tag, sep, c) == Fence \o tag \o sep \o c \o sep \o Fence

Wrappings(c) ==
    { c, Wrap(<<"json">>, <<"\n">>, c), Wrap(<<>>, <<"\n">>, c),
      <<" ">> \o c \o <<"\n">> }

ModelTexts == UNION { Wrappings(c) : c \in Corpus }

\* resp.choices[0].message.content: a string or None
ModelContents == {NullV} \cup { StrV(t) : t \in ModelTexts }

BodyAtoms == {"{", "}", "[", "]", ":", ",", "null", "NaN", "1", QT}

ShortContents ==
    { StrV(t) : t \in UNION { {c, Wrap(<<"json">>, <<"\n">>, c)} :
                              c \in SeqsUpTo(BodyAtoms, MaxBodyLen) } }

FenceAtoms == {BT, "json", "JSON", "\n", "x"}
FenceTags == { <<>>, <<"json">> }
FenceSeps == { <<>>, <<"\n">> }

QueryAtoms == {"t", "a", "T", "A", "x", " "}

\* ------------------------------------------------------------------------
\* State
\* ------------------------------------------------------------------------
VARIABLES
    tavilyKey, groqKey,   \* TAVILY_API_KEY, GROQ_API_KEY
    pc,                   \* where the script run is
    diag,                 \* what st.error has shown
    clients,              \* whether tavily_client and groq_client exist
    user_query, search_q, \* the text input, and _build_search_query of it
    res,                  \* what tavily_client.search returned
    web_results,          \* what tavily_search returned
    compact,              \* groq_structured_answer's compact list
    content,              \* the model's message content
    response,             \* what groq_structured_answer returned
    errAt,                \* where an exception left the run, "" if none
    calls,                \* the provider call events of this run, in order
    fence_in, fenced, out_plain, out_fenced, fence_done,
    raw, normalized, query_done

runVars == <<pc, diag, clients, user_query, search_q, res, web_results, compact,
             content, response, errAt, calls>>
pipeVars == <<tavilyKey, groqKey, pc, diag, clients, user_query, search_q, res,
              web_results, compact, content, response, errAt, calls>>
fenceVars == <<fence_in, fenced, out_plain, out_fenced, fence_done>>
queryVars == <<raw, normalized, query_done>>
vars == <<pipeVars, fenceVars, queryVars>>

FreshRun ==
    /\ pc = "load"
    /\ diag = <<>>
    /\ clients = FALSE
    /\ user_query = <<>>
    /\ search_q = <<>>
    /\ res = NullV
    /\ web_results = NullV
    /\ compact = NullV
    /\ content = NullV
    /\ response = NullV
    /\ errAt = ""
    /\ calls = <<>>

FenceIdle ==
    /\ fence_in = <<>>
    /\ fenced = <<>>
    /\ out_plain = <<>>
    /\ out_fenced = <<>>
    /\ fence_done = FALSE

QueryIdle ==
    /\ raw = <<>>
    /\ normalized = <<>>
    /\ query_done = FALSE

Init ==
    /\ tavilyKey \in KeyValues
    /\ groqKey \in KeyValues
    /\ FreshRun
    /\ FenceIdle
    /\ QueryIdle

\* ------------------------------------------------------------------------
\* The script run
\* ------------------------------------------------------------------------
\* not KEY
KeyMissing(k) == k \in {"unset", "empty"}

\* variant: the GROQ_API_KEY test left out
StartupOutcomeNoGroqCheck(tk, gk) ==
    IF KeyMissing(tk)
    THEN [pc |-> "stopped", diag |-> <<"Missing TAVILY_API_KEY in .env">>,
          clients |-> FALSE]
    ELSE [pc |-> "idle", diag |-> <<>>, clients |-> TRUE]

\* lines 20-32: st.error and st.stop on a missing key, else the two clients
StartupOutcome(tk, gk) ==
    IF KeyMissing(tk)
    THEN [pc |-> "stopped", diag |-> <<"Missing TAVILY_API_KEY in .env">>,
          clients |-> FALSE]
    ELSE IF KeyMissing(gk)
    THEN [pc |-> "stopped", diag |-> <<"Missing GROQ_API_KEY in .env">>,
          clients |-> FALSE]
    ELSE [pc |-> "idle", diag |-> <<>>, clients |-> TRUE]

Startup ==
    /\ pc = "load"
    /\ LET o == StartupOutcome(tavilyKey, groqKey)
       IN  /\ pc' = o.pc
           /\ diag' = o.diag
           /\ clients' = o.clients
    /\ UNCHANGED <<tavilyKey, groqKey, user_query, search_q, res, web_results,
                   compact, content, response, errAt, calls>>
    /\ UNCHANGED <<fenceVars, queryVars>>

\* The button is pressed with q in the text input.  An empty q does not
\* enter the handler; any other q is normalized and the search call starts.
Submit ==
    /\ pc = "idle"
    /\ \E q \in UserQueries :
          /\ user_query' = q
          /\ IF q = <<>>
             THEN UNCHANGED <<pc, search_q, calls>>
             ELSE /\ search_q' = _build_search_query(q)
                  /\ calls' = Append(calls, "search_call")
                  /\ pc' = "search"
    /\ UNCHANGED <<tavilyKey, groqKey, diag, clients, res, web_results, compact,
                   content, response, errAt>>
    /\ UNCHANGED <<fenceVars, queryVars>>

\* tavily_client.search returns r: tavily_search hands its results to
\* groq_structured_answer, which compacts them and starts the model call
SearchReturnWith(r, onShapeError) ==
    /\ pc = "search"
    /\ res' = r
    /\ web_results' = tavily_search(r)
    /\ LET c == Compact(tavily_search(r))
       IN  IF c.ok
           THEN /\ compact' = c.val
                /\ calls' = calls \o <<"search_return", "model_call">>
                /\ pc' = "model"
                /\ errAt' = errAt
           ELSE /\ compact' = compact
                /\ calls' = calls \o onShapeError.calls
                /\ pc' = onShapeError.pc
                /\ errAt' = onShapeError.errAt
    /\ UNCHANGED <<tavilyKey, groqKey, diag, clients, user_query, search_q,
                   content, response>>
    /\ UNCHANGED <<fenceVars, queryVars>>

\* variant: a response the compaction cannot read starts the search again
SearchReturnRetrying ==
    \E r \in ProviderResponses :
        SearchReturnWith(r, [calls |-> <<"search_return", "search_call">>,
                             pc |-> "search", errAt |-> ""])

SearchReturn ==
    \E r \in ProviderResponses :
        SearchReturnWith(r, [calls |-> <<"search_return">>,
                             pc |-> "raised", errAt |-> "compact"])

\* tavily_client.search raises (network, authentication)
SearchError ==
    /\ pc = "search"
    /\ calls' = Append(calls, "search_error")
    /\ errAt' = "tavily_search"
    /\ pc' = "raised"
    /\ UNCHANGED <<tavilyKey, groqKey, diag, clients, user_query, search_q, res,
                   web_results, compact, content, response>>
    /\ UNCHANGED <<fenceVars, queryVars>>

\* groq_client.chat.completions.create returns a message with content c
ModelReturnWith(c) ==
    /\ pc = "model"
    /\ content' = c
    /\ calls' = Append(calls, "model_return")
    /\ LET a == Answer(user_query, compact, c)
       IN  IF a.raised
           THEN /\ pc' = "raised"
                /\ errAt' = "extract"
                /\ response' = response
           ELSE /\ pc' = "done"
                /\ errAt' = errAt
                /\ response' = a.val
    /\ UNCHANGED <<tavilyKey, groqKey, diag, clients, user_query, search_q, res,
                   web_results, compact>>
    /\ UNCHANGED <<fenceVars, queryVars>>

ModelReturn == \E c \in ModelContents : ModelReturnWith(c)

\* groq_client.chat.completions.create raises
ModelError ==
    /\ pc = "model"
    /\ calls' = Append(calls, "model_error")
    /\ errAt' = "model_call"
    /\ pc' = "raised"
    /\ UNCHANGED <<tavilyKey, groqKey, diag, clients, user_query, search_q, res,
                   web_results, compact, content, response>>
    /\ UNCHANGED <<fenceVars, queryVars>>

\* Streamlit runs the script again from its first line on the next
\* interaction; the environment keeps its keys
Rerun ==
    /\ pc \in {"idle", "done", "raised", "stopped"}
    /\ pc' = "load"
    /\ diag' = <<>>
    /\ clients' = FALSE
    /\ user_query' = <<>>
    /\ search_q' = <<>>
    /\ res' = NullV
    /\ web_results' = NullV
    /\ compact' = NullV
    /\ content' = NullV
    /\ response' = NullV
    /\ errAt' = ""
    /\ calls' = <<>>
    /\ UNCHANGED <<tavilyKey, groqKey>>
    /\ UNCHANGED <<fenceVars, queryVars>>

Next ==
    \/ Startup
    \/ Submit
    \/ SearchError
    \/ SearchReturn
    \/ ModelReturn
    \/ ModelError
    \/ Rerun

Spec == Init /\ [][Next]_vars

\* ------------------------------------------------------------------------
\* groq_structured_answer on every short model text
\* ------------------------------------------------------------------------
ExtractResponse ==
    WithResults(ArrV(<< ObjV(<< <<K("title"), StrV(K("T1"))>>,
                                <<K("url"), StrV(K("u1"))>>,
                                <<K("content"), StrV(K("c1"))>> >>) >>))

\* the run is in the model call of a query whose search returned one result
InitExtract ==
    /\ tavilyKey = "set"
    /\ groqKey = "set"
    /\ pc = "model"
    /\ diag = <<>>
    /\ clients = TRUE
    /\ user_query = <<"x">>
    /\ search_q = _build_search_query(user_query)
    /\ res = ExtractResponse
    /\ web_results = tavily_search(ExtractResponse)
    /\ compact = Compact(tavily_search(ExtractResponse)).val
    /\ content = NullV
    /\ response = NullV
    /\ errAt = ""
    /\ calls = <<"search_call", "search_return", "model_call">>
    /\ FenceIdle
    /\ QueryIdle

ModelReturnShort == \E c \in ShortContents : ModelReturnWith(c)

NextExtract == ModelReturnShort

SpecExtract == InitExtract /\ [][NextExtract]_vars

\* ------------------------------------------------------------------------
\* _strip_code_fences on a content and on the same content inside a fence
\* ------------------------------------------------------------------------
InitFence ==
    /\ tavilyKey = "set"
    /\ groqKey = "set"
    /\ FreshRun
    /\ fence_in \in SeqsUpTo(FenceAtoms, MaxContentLen)
    /\ fenced = <<>>
    /\ out_plain = <<>>
    /\ out_fenced = <<>>
    /\ fence_done = FALSE
    /\ QueryIdle

StripBoth ==
    /\ ~fence_done
    /\ \E tag \in FenceTags, sep \in FenceSeps :
          /\ fenced' = Wrap(tag, sep, fence_in)
          /\ out_fenced' = _strip_code_fences(Wrap(tag, sep, fence_in))
    /\ out_plain' = _strip_code_fences(fence_in)
    /\ fence_done' = TRUE
    /\ UNCHANGED <<fence_in, pipeVars, queryVars>>

NextFence == StripBoth

SpecFence == InitFence /\ [][NextFence]_vars

\* ------------------------------------------------------------------------
\* _build_search_query on every short raw query
\* ------------------------------------------------------------------------
InitQuery ==
    /\ tavilyKey = "set"
    /\ groqKey = "set"
    /\ FreshRun
    /\ FenceIdle
    /\ raw \in SeqsUpTo(QueryAtoms, MaxQueryLen)
    /\ normalized = <<>>
    /\ query_done = FALSE

BuildSearchQuery ==
    /\ ~query_done
    /\ normalized' = _build_search_query(raw)
    /\ query_done' = TRUE
    /\ UNCHANGED <<raw, pipeVars, fenceVars>>

NextQuery == BuildSearchQuery

SpecQuery == InitQuery /\ [][NextQuery]_vars
\* ------------------------------------------------------------------------
\* Properties
\* ------------------------------------------------------------------------
LastCall == IF calls = <<>> THEN "" ELSE calls[Len(calls)]

\* the model call of this run has returned a message
ModelReturned == LastCall = "model_return"

Mode == DictGet(response, K("mode"))
IsStructured == pc = "done" /\ IsDict(response) /\ Mode = StrV(K("structured"))
IsFallback == pc = "done" /\ IsDict(response) /\ Mode = StrV(K("text_fallback"))

Count(seq, e) == Cardinality({i \in 1..Len(seq) : seq[i] = e})

\* C1: whenever the fence-stripped model text is not a JSON text, the run
\* ends, without an exception, in the dictionary {mode: "text_fallback",
\* query: the user query, response: the fence-stripped text, sources: the
\* whole compact list in its order}.
C1_InvalidJsonFallsBack ==
    (ModelReturned /\ ~StrictJson(CleanText(content)).ok)
        => /\ pc = "done"
           /\ response = ObjV(<< <<K("mode"), StrV(K("text_fallback"))>>,
                                 <<K("query"), StrV(user_query)>>,
                                 <<K("response"), StrV(CleanText(content))>>,
                                 <<K("sources"), compact>> >>)

TitleUrl(r) ==
    ObjV(<< <<K("title"), DictGet(r, K("title"))>>, <<K("url"), DictGet(r, K("url"))>> >>)

UrlNotNull(r) == DictGet(r, K("url")) # NullV
UrlNotNullNotEmpty(r) ==
    DictGet(r, K("url")) # NullV /\ DictGet(r, K("url")) # StrV(<<>>)

TitleUrls(rs) == ArrV([i \in 1..Len(rs) |-> TitleUrl(rs[i])])

TextIsJsonObject ==
    StrictJson(CleanText(content)).ok /\ IsDict(StrictJson(CleanText(content)).val)

\* C2 as stated: a JSON object gives mode "structured" and sources_used =
\* the {title, url} of the input results whose url is not null, in order.
C2_SourcesUsedAreNonNullUrls ==
    (ModelReturned /\ TextIsJsonObject)
        => /\ IsStructured
           /\ DictGet(response, K("sources_used"))
                  = TitleUrls(SelectSeq(web_results.v, UrlNotNull))

\* C2 as amended: a JSON object gives mode "structured" and sources_used =
\* the {title, url} of the input results whose url is neither null nor the
\* empty string, in order, whatever "mode" or "sources_used" the object
\* carried.
C2_SourcesUsedAreNonEmptyUrls ==
    (ModelReturned /\ TextIsJsonObject)
        => /\ IsStructured
           /\ DictGet(response, K("sources_used"))
                  = TitleUrls(SelectSeq(web_results.v, UrlNotNullNotEmpty))

\* C2's case: the object carried its own mode, one result had an empty url,
\* one a null url, and one a url that is listed
C2_Witness ==
    /\ ModelReturned
    /\ TextIsJsonObject
    /\ DictGet(StrictJson(CleanText(content)).val, K("mode")) = StrV(K("text_fallback"))
    /\ Len(web_results.v) = 2
    /\ ~UrlNotNullNotEmpty(web_results.v[1])
    /\ UrlNotNullNotEmpty(web_results.v[2])
    /\ Len(DictGet(response, K("sources_used")).v) = 1

\* C3: once the model call has returned, the run ends as Structured or as
\* Fallback whatever the text: never in an exception.
C3_TwoTerminalOutcomes ==
    ModelReturned => (IsStructured \/ IsFallback)

\* C4 as stated: the answer is the fallback exactly when the fence-stripped
\* text is not a JSON text (so never for null).
C4_FallbackIffNotJson ==
    ModelReturned => (IsFallback <=> ~StrictJson(CleanText(content)).ok)

\* C4 as amended: the answer is the fallback exactly when json.loads
\* rejects the fence-stripped text or gives None for it (the text null).
C4_FallbackIffLoadsGivesNone ==
    ModelReturned =>
        (IsFallback <=> (\/ ~JsonLoads(CleanText(content)).ok
                         \/ JsonLoads(CleanText(content)).val = NullV))

\* C4's case: the text null, which parses, answered by the fallback
C4_Witness ==
    /\ ModelReturned
    /\ IsFallback
    /\ StrictJson(CleanText(content)).ok
    /\ DictGet(response, K("response")) = StrV(<<"null">>)

\* the content's first atom is the word json, in any case
BeginsWithJsonWord(c) == Len(c) > 0 /\ c[1] \in JsonWord

\* C5 as stated: stripping the fenced content gives what stripping the
\* content gives.
C5_FencedStripsLikePlain ==
    fence_done => out_fenced = out_plain

\* C5 as amended: it does when the content, trimmed, neither begins nor
\* ends with three backticks and, under a plain fence written directly
\* against it, does not begin with the word json.
C5_FencedStripsLikePlainUnlessNested ==
    ( /\ fence_done
      /\ ~StartsWithFence(Strip(fence_in))
      /\ ~EndsWithFence(Strip(fence_in))
      /\ ~(fenced = Fence \o fence_in \o Fence /\ BeginsWithJsonWord(fence_in)) )
        => out_fenced = out_plain

\* C5's case: a content that begins with the word json and has whitespace
\* around it, inside a json fence
C5_Witness ==
    /\ fence_done
    /\ fence_in = <<"\n", "json", "\n", "x", "\n">>
    /\ fenced = Wrap(<<"json">>, <<"\n">>, fence_in)
    /\ out_fenced = <<"json", "\n", "x">>
    /\ out_plain = out_fenced

\* tata at position i of s, in any letter case
TataAt(s, i) ==
    /\ i + 3 <= Len(s)
    /\ s[i] \in {"t", "T"}
    /\ s[i + 1] \in {"a", "A"}
    /\ s[i + 2] \in {"t", "T"}
    /\ s[i + 3] \in {"a", "A"}

HasTata(s) == \E i \in 1..Len(s) : TataAt(s, i)

\* C6: every raw query has a result: the raw query itself when it holds
\* tata in any letter case, else the scoping phrase followed by the raw
\* query.
C6_QueryNormalization ==
    /\ ~query_done => ENABLED BuildSearchQuery
    /\ query_done =>
          normalized = IF HasTata(raw) THEN raw ELSE ScopingPhrase \o raw

\* C6's case: tata in mixed case, passed through
C6_Witness ==
    /\ query_done
    /\ raw = <<"T", "a", "T", "A">>
    /\ normalized = raw

SearchReturned == Count(calls, "search_return") > 0

\* a dict whose "results" is a list of dicts
WellShaped(r) ==
    /\ IsDict(r)
    /\ KeyIndex(r.v, K("results"), 1) # 0
    /\ DictGet(r, K("results")).t = "arr"
    /\ \A i \in 1..Len(DictGet(r, K("results")).v) : IsDict(DictGet(r, K("results")).v[i])

\* C7: a response of any other shape gives the empty result sequence, and
\* the run goes on through the model call with no results and no exception.
C7_MalformedResponseIsNoResults ==
    (SearchReturned /\ ~WellShaped(res))
        => /\ web_results = ArrV(<<>>)
           /\ compact = ArrV(<<>>)
           /\ Count(calls, "model_call") = 1
           /\ errAt \notin {"compact", "extract"}

\* C8 as stated: a run that has ended made exactly one search call and then
\* exactly one model call.
C8_OneSearchThenOneModelCall ==
    pc \in {"done", "raised"}
        => /\ Count(calls, "search_call") = 1
           /\ Count(calls, "model_call") = 1
           /\ SubSeq(calls, 1, 3) = <<"search_call", "search_return", "model_call">>

\* C8 as amended: a run makes one search call and at most one model call,
\* the model call right after the search call returned and never while it
\* is open; the model call is made exactly when the search call returns a
\* response whose results the compaction can read, so a run that ends
\* without an exception made exactly one of each.
C8_CallDiscipline ==
    /\ calls \in { <<>>,
                   <<"search_call">>,
                   <<"search_call", "search_error">>,
                   <<"search_call", "search_return">>,
                   <<"search_call", "search_return", "model_call">>,
                   <<"search_call", "search_return", "model_call", "model_return">>,
                   <<"search_call", "search_return", "model_call", "model_error">> }
    /\ pc = "search" <=> calls = <<"search_call">>
    /\ pc = "model" <=> calls = <<"search_call", "search_return", "model_call">>
    /\ pc = "done" =>
          calls = <<"search_call", "search_return", "model_call", "model_return">>
    /\ calls = <<"search_call", "search_return">>
          <=> (pc = "raised" /\ errAt = "compact")
    /\ (pc = "raised" /\ errAt = "compact") => ~Compact(web_results).ok
    /\ Count(calls, "model_call") = 1 => Compact(web_results).ok

\* C8's case: a run that ended with an answer
C8_Witness ==
    /\ pc = "done"
    /\ calls = <<"search_call", "search_return", "model_call", "model_return">>
    /\ IsStructured

\* C9: with either key absent the run shows a diagnostic and stops: no
\* client exists, no query is taken and no provider call is made.
C9_MissingKeyStopsTheRun ==
    (tavilyKey # "set" \/ groqKey # "set")
        => /\ pc \in {"load", "stopped"}
           /\ ~clients
           /\ calls = <<>>
           /\ user_query = <<>>
           /\ pc = "stopped" => Len(diag) = 1

\* C9's case: the Tavily key is there, the Groq key is not, the run stopped
C9_Witness ==
    /\ pc = "stopped"
    /\ tavilyKey = "set"
    /\ groqKey = "unset"
    /\ diag = <<"Missing GROQ_API_KEY in .env">>
    /\ ~clients

Confidences == { StrV(K("high")), StrV(K("medium")), StrV(K("low")) }

ConfidenceOk(d) ==
    (IsDict(d) /\ KeyIndex(d.v, K("confidence"), 1) # 0)
        => DictGet(d, K("confidence")) \in Confidences

\* C10: in a structured answer every dealer's confidence is high, medium or
\* low.
C10_ConfidenceInEnum ==
    (IsStructured /\ DictGet(response, K("dealers")).t = "arr")
        => \A i \in 1..Len(DictGet(response, K("dealers")).v) :
              ConfidenceOk(DictGet(response, K("dealers")).v[i])
====
